---- MODULE Spec2Model ----
(***************************************************************************)
(* Model of the documentation viewer of kazmiali/learning: the build-time  *)
(* manifest builder (scripts/generate-docs-json), the DocView component    *)
(* (path resolution, directory ordering, breadcrumbs, content fetch) and   *)
(* the router that drives it.                                              *)
(***************************************************************************)
EXTENDS Integers, Sequences, FiniteSets, TLC

(***************************************************************************)
(* Bounds of the model.                                                    *)
(***************************************************************************)
MaxEntries == 3      \* filesystem entries below the docs root
MaxDepth == 2        \* depth of the filesystem below the docs root
MaxPathLen == 3      \* segments of a navigation path
MaxNav == 3          \* navigation events in one session

\* Entry names that occur on the modelled disk and in the modelled URLs.
Names == {"Zebra", "zebra", "apple.md"}

(***************************************************************************)
(* Strings.  A JavaScript string is a sequence of code units; CharAt reads *)
(* one of them.                                                            *)
(***************************************************************************)
CharAt(s, i) == SubSeq(s, i, i)

RECURSIVE IndexIn(_, _, _)
\* 1-based index of character c in string s at or after position i, 0 if none
IndexIn(c, s, i) ==
  IF i > Len(s) THEN 0
  ELSE IF CharAt(s, i) = c THEN i
  ELSE IndexIn(c, s, i + 1)

UpperLetters == "ABCDEFGHIJKLMNOPQRSTUVWXYZ"
LowerLetters == "abcdefghijklmnopqrstuvwxyz"
\* Primary collation order of the characters used in names: punctuation
\* before digits before letters, letters without regard to case.
CollationOrder == "_-.0123456789abcdefghijklmnopqrstuvwxyz"

IsUpper(c) == IndexIn(c, UpperLetters, 1) > 0

ToLower(c) ==
  IF IsUpper(c) THEN CharAt(LowerLetters, IndexIn(c, UpperLetters, 1)) ELSE c

RECURSIVE lowerFrom(_, _)
lowerFrom(s, i) ==
  IF i > Len(s) THEN "" ELSE ToLower(CharAt(s, i)) \o lowerFrom(s, i + 1)

\* String.prototype.toLowerCase
toLowerCase(s) == lowerFrom(s, 1)

PrimaryWeight(c) == IndexIn(ToLower(c), CollationOrder, 1)

\* Tertiary (case) weight: a lower-case letter sorts before its upper case.
TertiaryWeight(c) == IF IsUpper(c) THEN 1 ELSE 0

RECURSIVE CompareLevel(_, _, _, _)
\* Lexicographic comparison of the weights of level lvl from position i on:
\* -1, 0 or 1.  A proper prefix sorts first.
CompareLevel(a, b, i, lvl) ==
  IF i > Len(a) /\ i > Len(b) THEN 0
  ELSE IF i > Len(a) THEN -1
  ELSE IF i > Len(b) THEN 1
  ELSE LET wa == IF lvl = 1 THEN PrimaryWeight(CharAt(a, i))
                 ELSE TertiaryWeight(CharAt(a, i))
           wb == IF lvl = 1 THEN PrimaryWeight(CharAt(b, i))
                 ELSE TertiaryWeight(CharAt(b, i))
       IN IF wa < wb THEN -1
          ELSE IF wa > wb THEN 1
          ELSE CompareLevel(a, b, i + 1, lvl)

\* String.prototype.localeCompare with the default collation: the primary
\* level decides; only strings equal at the primary level are told apart by
\* case.
localeCompare(a, b) ==
  LET p == CompareLevel(a, b, 1, 1)
  IN IF p # 0 THEN p ELSE CompareLevel(a, b, 1, 3)

(***************************************************************************)
(* The docs directory on disk, as the manifest builder sees it.  A         *)
(* filesystem maps the path of every entry (a sequence of names relative   *)
(* to the docs root, <<>> being the root itself) to its kind.              *)
(***************************************************************************)
ROOT == <<>>
DocsDirName == "docs"

RECURSIVE PathsOfLen(_)
PathsOfLen(n) ==
  IF n = 0 THEN {<<>>}
  ELSE {Append(p, s) : p \in PathsOfLen(n - 1), s \in Names}

RECURSIVE PathsUpTo(_)
PathsUpTo(n) == IF n = 0 THEN PathsOfLen(0) ELSE PathsOfLen(n) \cup PathsUpTo(n - 1)

Parent(p) == SubSeq(p, 1, Len(p) - 1)

\* the entries that can be created in fs: a new name in one of its directories
Creatable(fs) ==
  {p \in PathsUpTo(MaxDepth) \ {ROOT} :
     /\ p \notin DOMAIN fs
     /\ Parent(p) \in DOMAIN fs
     /\ fs[Parent(p)] = "dir"}

RECURSIVE FileSystemsUpTo(_)
\* every filesystem with a directory at the root and at most n entries below
FileSystemsUpTo(n) ==
  IF n = 0 THEN {(ROOT :> "dir")}
  ELSE LET smaller == FileSystemsUpTo(n - 1)
       IN smaller \cup
          UNION {{fs @@ (p :> k) : p \in Creatable(fs), k \in {"dir", "file"}} :
                   fs \in {g \in smaller : Cardinality(DOMAIN g) = n}}

FileSystems == FileSystemsUpTo(MaxEntries)

\* The order in which the disk hands out entries: any permutation.
DiskOrders(fs) ==
  LET S == DOMAIN fs \ {ROOT}
      n == Cardinality(S)
  IN {o \in [1..n -> S] : \A i, j \in 1..n : o[i] = o[j] => i = j}

\* fs.statSync(p).isDirectory()
isDirectory(fs, p) == fs[p] = "dir"

\* path.basename(p)
basename(p) == IF p = ROOT THEN DocsDirName ELSE p[Len(p)]

\* path.join(dir, child)
join(dir, child) == Append(dir, child)

\* fs.readdirSync(dir): the names of the entries of dir, in disk order
readdirSync(fs, ord, dir) ==
  LET inDir(p) == Len(p) = Len(dir) + 1 /\ Parent(p) = dir
      sel == SelectSeq(ord, inDir)
  IN [i \in 1..Len(sel) |-> basename(sel[i])]

\* a builder that lists a directory without descending into its entries
getDirectoryTree_shallow(fs, ord, dirPath) ==
  LET name == basename(dirPath)
  IN IF isDirectory(fs, dirPath)
     THEN LET entries == readdirSync(fs, ord, dirPath)
              children == [i \in 1..Len(entries) |->
                             [name |-> entries[i], type |-> "file"]]
          IN [name |-> name, type |-> "directory", children |-> children]
     ELSE [name |-> name, type |-> "file"]

RECURSIVE getDirectoryTree_childrenOnFiles(_, _, _)
\* a builder that gives every node a children array
getDirectoryTree_childrenOnFiles(fs, ord, dirPath) ==
  LET name == basename(dirPath)
  IN IF isDirectory(fs, dirPath)
     THEN LET entries == readdirSync(fs, ord, dirPath)
              children == [i \in 1..Len(entries) |->
                             getDirectoryTree_childrenOnFiles(fs, ord,
                                                              join(dirPath, entries[i]))]
          IN [name |-> name, type |-> "directory", children |-> children]
     ELSE [name |-> name, type |-> "file", children |-> <<>>]

RECURSIVE getDirectoryTree(_, _, _)
getDirectoryTree(fs, ord, dirPath) ==
  LET name == basename(dirPath)
  IN IF isDirectory(fs, dirPath)
     THEN LET entries == readdirSync(fs, ord, dirPath)
              children == [i \in 1..Len(entries) |->
                             getDirectoryTree(fs, ord, join(dirPath, entries[i]))]
          IN [name |-> name, type |-> "directory", children |-> children]
     ELSE [name |-> name, type |-> "file"]

\* Every manifest the builder can write for a filesystem.
ManifestsOf(fs) == {getDirectoryTree(fs, o, ROOT) : o \in DiskOrders(fs)}

(***************************************************************************)
(* DocView: values.                                                        *)
(***************************************************************************)
\* JavaScript null and undefined, and the outcome of a statement that threw
Null == [type |-> "null"]
Undefined == [type |-> "undefined"]
TypeError == [type |-> "TypeError"]

Falsy(v) == v = Null \/ v = Undefined

\* whether node.children is defined (an array, possibly empty)
hasChildren(node) == "children" \in DOMAIN node

RECURSIVE find_ignoreCase(_, _, _)
\* find with names matched without regard to case
find_ignoreCase(arr, segment, i) ==
  IF i > Len(arr) THEN Undefined
  ELSE IF toLowerCase(arr[i].name) = toLowerCase(segment) THEN arr[i]
  ELSE find_ignoreCase(arr, segment, i + 1)

RECURSIVE find(_, _, _)
\* Array.prototype.find with the predicate c.name === segment
find(arr, segment, i) ==
  IF i > Len(arr) THEN Undefined
  ELSE IF arr[i].name = segment THEN arr[i]
  ELSE find(arr, segment, i + 1)

RECURSIVE findLoop_noEarlyReturn(_, _, _)
\* the loop without the return on a missing child
findLoop_noEarlyReturn(path, i, current) ==
  IF i > Len(path) THEN current
  ELSE IF Falsy(current) THEN TypeError
  ELSE LET child == IF hasChildren(current)
                    THEN find(current.children, path[i], 1)
                    ELSE Undefined
       IN findLoop_noEarlyReturn(path, i + 1, child)

RECURSIVE findLoop_skipsMissing(_, _, _)
\* the loop that passes over a segment without a matching child
findLoop_skipsMissing(path, i, current) ==
  IF i > Len(path) THEN current
  ELSE LET child == IF hasChildren(current)
                    THEN find(current.children, path[i], 1)
                    ELSE Undefined
       IN IF Falsy(child) THEN findLoop_skipsMissing(path, i + 1, current)
          ELSE findLoop_skipsMissing(path, i + 1, child)

RECURSIVE findLoop(_, _, _)
\* the for-of loop of findItem from segment i on
findLoop(path, i, current) ==
  IF i > Len(path) THEN current
  ELSE IF Falsy(current) THEN TypeError
  ELSE LET child == IF hasChildren(current)
                    THEN find(current.children, path[i], 1)
                    ELSE Undefined
       IN IF Falsy(child) THEN Null
          ELSE findLoop(path, i + 1, child)

\* findItem that treats the empty path as a miss
findItem_emptyIsNull(path, tree) ==
  IF Len(path) = 0 THEN Null ELSE findLoop(path, 1, tree)

findItem(path, tree) == findLoop(path, 1, tree)

\* the comparator without the directories-first rule
compareChildren_nameOnly(a, b) == localeCompare(a.name, b.name)

\* a comparator that looks at the type only
compareChildren_typeOnly(a, b) ==
  IF a.type = "directory" /\ b.type = "file" THEN -1
  ELSE IF a.type = "file" /\ b.type = "directory" THEN 1
  ELSE 0

\* a comparator that is not an ordering: it never answers "equal or before"
\* for two children of one type
compareChildren_inconsistent(a, b) ==
  IF a.type = "directory" /\ b.type = "file" THEN -1 ELSE 1

\* the comparator handed to Array.prototype.sort
compareChildren(a, b) ==
  IF a.type = "directory" /\ b.type = "file" THEN -1
  ELSE IF a.type = "file" /\ b.type = "directory" THEN 1
  ELSE localeCompare(a.name, b.name)

\* an insertion that overwrites the element x has to go in front of
insertSorted_overwrites(sorted, x) ==
  IF sorted = <<>> THEN <<x>>
  ELSE IF compareChildren(sorted[Len(sorted)], x) <= 0 THEN Append(sorted, x)
  ELSE [sorted EXCEPT ![Len(sorted)] = x]

RECURSIVE insertSorted(_, _)
\* x inserted behind the last element that does not sort after it
insertSorted(sorted, x) ==
  IF sorted = <<>> THEN <<x>>
  ELSE IF compareChildren(sorted[Len(sorted)], x) <= 0 THEN Append(sorted, x)
  ELSE Append(insertSorted(SubSeq(sorted, 1, Len(sorted) - 1), x),
              sorted[Len(sorted)])

RECURSIVE sortFrom(_, _, _)
\* Array.prototype.sort: a stable sort by compareChildren
sortFrom(arr, i, acc) ==
  IF i > Len(arr) THEN acc
  ELSE sortFrom(arr, i + 1, insertSorted(acc, arr[i]))

sortedChildrenOf(it) ==
  IF Falsy(it) \/ ~hasChildren(it) THEN <<>>
  ELSE sortFrom(it.children, 1, <<>>)

RECURSIVE crumbsFrom_noAccumulate(_, _, _, _)
\* the loop with the target restarted at every segment
crumbsFrom_noAccumulate(pathSegments, i, currentPath, crumbs) ==
  IF i > Len(pathSegments) THEN crumbs
  ELSE LET next == "/" \o pathSegments[i]
       IN crumbsFrom_noAccumulate(pathSegments, i + 1, next,
                     Append(crumbs, [name |-> pathSegments[i], path |-> next]))

RECURSIVE crumbsFrom(_, _, _, _)
\* the for-of loop of breadcrumbs from segment i on
crumbsFrom(pathSegments, i, currentPath, crumbs) ==
  IF i > Len(pathSegments) THEN crumbs
  ELSE LET next == currentPath \o "/" \o pathSegments[i]
       IN crumbsFrom(pathSegments, i + 1, next,
                     Append(crumbs, [name |-> pathSegments[i], path |-> next]))

breadcrumbsOf(pathSegments) == crumbsFrom(pathSegments, 1, "", <<>>)

(***************************************************************************)
(* Content retrieval and rendering.                                        *)
(***************************************************************************)
RECURSIVE joinFrom(_, _, _)
joinFrom(segs, sep, i) ==
  IF i > Len(segs) THEN ""
  ELSE IF i = Len(segs) THEN segs[i]
  ELSE segs[i] \o sep \o joinFrom(segs, sep, i + 1)

\* Array.prototype.join
joinSegments(segs, sep) == joinFrom(segs, sep, 1)

\* The text the static host serves for a file: one paragraph naming the file.
TextAt(pathSegments) == "notes of " \o joinSegments(pathSegments, "/")

\* marked.parse of a one-paragraph document
marked(markdown) == "<p>" \o markdown \o "</p>"

ErrorMarkup == "<p>Error loading file</p>"

FetchOutcomes == {"ok", "notOk", "networkError"}
TextOutcomes == {"text", "bodyError"}

(***************************************************************************)
(* The base path.  An environment is the mode the app is built or served   *)
(* in; vite sets NODE_ENV from it before it reads the configuration.       *)
(***************************************************************************)
Envs == {"production", "development"}

\* process.env.NODE_ENV while vite.config.ts is evaluated
NODE_ENV(env) == env

\* import.meta.env.MODE in the client code
MODE(env) == env

\* vite.config.ts: basePath
basePath(env) == IF NODE_ENV(env) = "production" THEN "/learning/" ELSE "/"

\* import.meta.env.BASE_URL: the base option of the configuration
BASE_URL(env) == basePath(env)

\* a router created without a base, whatever the mode
routerBase_none(env) == "/"

\* router/index.ts: routerBase, handed to createWebHistory
routerBase(env) == IF MODE(env) = "production" THEN "/learning/" ELSE "/"

\* the URL handed to fetch by updateContent
fetchUrl(env, pathSegments) ==
  BASE_URL(env) \o "docs/" \o joinSegments(pathSegments, "/")

(***************************************************************************)
(* The deploy script and vite.config.ts.  The file is a string; the script *)
(* replaces the first match of /base: ['"][^'"]+['"],/ in it.              *)
(***************************************************************************)
Quotes == {"'", "\""}

RECURSIVE valueEnd(_, _)
\* the position of the first quote at or after i, or one past the end
valueEnd(s, i) ==
  IF i > Len(s) THEN i
  ELSE IF CharAt(s, i) \in Quotes THEN i
  ELSE valueEnd(s, i + 1)

\* the length of the match of /base: ['"][^'"]+['"],/ that starts at
\* position i of s, 0 if there is none
matchAt(s, i) ==
  IF i + 6 > Len(s) THEN 0
  ELSE IF SubSeq(s, i, i + 5) # "base: " THEN 0
  ELSE IF CharAt(s, i + 6) \notin Quotes THEN 0
  ELSE LET e == valueEnd(s, i + 7)
       IN IF e = i + 7 \/ e + 1 > Len(s) THEN 0
          ELSE IF CharAt(s, e + 1) # "," THEN 0
          ELSE e + 2 - i

RECURSIVE replaceFrom(_, _, _)
\* String.prototype.replace with that pattern: the first match at or after
\* i is replaced, a string without a match is returned as it is
replaceFrom(s, i, replacement) ==
  IF i > Len(s) THEN s
  ELSE IF matchAt(s, i) > 0
  THEN SubSeq(s, 1, i - 1) \o replacement
         \o SubSeq(s, i + matchAt(s, i), Len(s))
  ELSE replaceFrom(s, i + 1, replacement)

replaceBase(configContent, replacement) == replaceFrom(configContent, 1, replacement)

DeployBase == "base: '/learning/',"
RestoredBase == "base: './',"

\* vite.config.ts around the base setting
ConfigOf(baseSetting) == "defineConfig({ " \o baseSetting \o " plugins: [vue()] })"

\* the file of the repository
RepoConfig == ConfigOf("base: basePath,")

\* base values a vite.config.ts may put between quotes
BaseValues ==
  {"/", "./", "../", ".", "", "/learning/", "/learning", "learning", "/docs/",
   "/app/", "/site/", "/repo/", "/a/b/", "/x"}

\* the files the deploy script may find
ConfigContents ==
  {RepoConfig} \cup
  {ConfigOf("base: " \o q1 \o v \o q2 \o ",") : q1 \in Quotes, q2 \in Quotes, v \in BaseValues}

(***************************************************************************)
(* State.                                                                  *)
(*   disk, docs       the docs directory and the manifest built from it    *)
(*   route            the router's current route                           *)
(*   inst             number of DocView instances mounted so far           *)
(*   item, markdownContent   the refs of the mounted DocView               *)
(*   calls            every invocation of updateContent, in order          *)
(*   navs             navigation events so far                             *)
(*   viteConfig       the content of vite.config.ts                        *)
(*   deploy           where the deploy script stands, and the content it   *)
(*                    read from vite.config.ts when it started             *)
(***************************************************************************)
VARIABLES disk, docs, route, inst, item, markdownContent, calls, navs,
          viteConfig, deploy
vars == <<disk, docs, route, inst, item, markdownContent, calls, navs,
          viteConfig, deploy>>

HomeRoute == [name |-> "Home", path |-> <<>>]
DocRoute(p) == [name |-> "Doc", path |-> p]

\* router: '/' is the Home route, every other URL the catch-all Doc route
\* whose repeatable parameter holds the segments
routeOf(p) == IF p = <<>> THEN HomeRoute ELSE DocRoute(p)

\* route.params.path normalised to an array
pathSegmentsOf(r) == r.path

\* The docs directory of a browsing session: a directory zebra holding the
\* file apple.md, next to a file apple.md at the top.
SessionDisk ==
  (ROOT :> "dir") @@ (<<"zebra">> :> "dir") @@ (<<"zebra", "apple.md">> :> "file")
    @@ (<<"apple.md">> :> "file")

\* A second one: a directory named apple.md holding the file zebra and the
\* empty directory Zebra, which the disk may list in either order.
SessionDisk2 ==
  (ROOT :> "dir") @@ (<<"apple.md">> :> "dir") @@ (<<"apple.md", "zebra">> :> "file")
    @@ (<<"apple.md", "Zebra">> :> "dir")

SessionDisks == {SessionDisk, SessionDisk2}

\* Names typed into the address bar during a session.
SessionNames == {"zebra", "apple.md"}

\* The URLs of a session: the root, every entry of the disk and every name
\* appended to an entry (a child that may be missing, a path past a file).
SessionUrls ==
  {ROOT} \cup (DOMAIN disk)
         \cup {Append(p, n) : p \in DOMAIN disk \ {ROOT}, n \in SessionNames}

InitView ==
  /\ route = HomeRoute
  /\ inst = 0
  /\ item = Null
  /\ markdownContent = ""
  /\ calls = <<>>
  /\ navs = 0

\* the deploy script has not been started
NotDeploying == [pc |-> "idle", read |-> ""]

\* vite.config.ts as the repository has it; no deploy is running
InitConfig ==
  /\ viteConfig = RepoConfig
  /\ deploy = NotDeploying

\* a browsing session over a small docs directory
Init ==
  /\ \E fs \in SessionDisks : disk = fs /\ docs \in ManifestsOf(fs)
  /\ InitView
  /\ InitConfig

\* the viewer opened on any docs directory
InitTree ==
  /\ \E fs \in FileSystems : disk = fs /\ docs \in ManifestsOf(fs)
  /\ InitView
  /\ InitConfig

\* updateContent that keeps the previous item when the path does not resolve
updateContentSync_keepsItem(pathSegments, md) ==
  LET found == findItem(pathSegments, docs)
      call == [inst |-> inst', path |-> pathSegments, pc |-> "done",
               promise |-> "fulfilled", result |-> "noFetch", logged |-> 0]
  IN IF ~Falsy(found) /\ found.type = "file"
     THEN [item |-> found, md |-> md,
           call |-> [call EXCEPT !.pc = "fetch", !.promise = "pending",
                                 !.result = "none"]]
     ELSE IF ~Falsy(found) /\ found.type = "directory"
     THEN [item |-> found, md |-> "", call |-> call]
     ELSE [item |-> item, md |-> md, call |-> call]

\* updateContent that reuses the markup of an earlier visit of the same file
updateContentSync_cached(pathSegments, md) ==
  LET found == findItem(pathSegments, docs)
      call == [inst |-> inst', path |-> pathSegments, pc |-> "done",
               promise |-> "fulfilled", result |-> "noFetch", logged |-> 0]
      seen == \E j \in 1..Len(calls) :
                calls[j].path = pathSegments /\ calls[j].result = "rendered"
  IN IF ~Falsy(found) /\ found.type = "file"
     THEN IF seen
          THEN [item |-> found, md |-> marked(TextAt(pathSegments)), call |-> call]
          ELSE [item |-> found, md |-> md,
                call |-> [call EXCEPT !.pc = "fetch", !.promise = "pending",
                                      !.result = "none"]]
     ELSE IF ~Falsy(found) /\ found.type = "directory"
     THEN [item |-> found, md |-> "", call |-> call]
     ELSE [item |-> found, md |-> md, call |-> call]

\* The synchronous part of updateContent, up to the first await: the new item
\* and markup and the record of the invocation.
updateContentSync(pathSegments, md) ==
  LET found == findItem(pathSegments, docs)
      call == [inst |-> inst', path |-> pathSegments, pc |-> "done",
               promise |-> "fulfilled", result |-> "noFetch", logged |-> 0]
  IN IF found = TypeError
     THEN [item |-> item, md |-> md,
           call |-> [call EXCEPT !.promise = "rejected"]]
     ELSE IF ~Falsy(found) /\ found.type = "file"
     THEN [item |-> found, md |-> md,
           call |-> [call EXCEPT !.pc = "fetch", !.promise = "pending",
                                 !.result = "none"]]
     ELSE IF ~Falsy(found) /\ found.type = "directory"
     THEN [item |-> found, md |-> "", call |-> call]
     ELSE [item |-> found, md |-> md, call |-> call]

RECURSIVE withSortedChildren(_, _, _)
\* tree with the children array of the node at path sorted where it lies
withSortedChildren(node, path, i) ==
  IF ~hasChildren(node) THEN node
  ELSE IF i > Len(path)
  THEN [node EXCEPT !.children = sortFrom(node.children, 1, <<>>)]
  ELSE [node EXCEPT !.children =
          [k \in 1..Len(node.children) |->
             IF node.children[k].name = path[i]
             THEN withSortedChildren(node.children[k], path, i + 1)
             ELSE node.children[k]]]

\* sortedChildren sorting item.value.children itself
docsAfterSort_inPlace(tree, path) == withSortedChildren(tree, path, 1)

\* The manifest once sortedChildren has been evaluated for the directory at
\* path: sort is applied to a spread copy, the array in the manifest stays.
docsAfterSort(tree, path) == tree

\* A navigation to URL p: a link, the address bar history, back or forward.
Navigate(p) ==
  /\ navs < MaxNav
  /\ routeOf(p) # route
  /\ navs' = navs + 1
  /\ route' = routeOf(p)
  /\ UNCHANGED <<disk, viteConfig, deploy>>
  /\ IF p = <<>>
     THEN \* DocView is unmounted, HomeView shown
          /\ item' = Null
          /\ markdownContent' = ""
          /\ UNCHANGED <<inst, calls, docs>>
     ELSE /\ inst' = IF route.name = "Home" THEN inst + 1 ELSE inst
          /\ LET md0 == IF route.name = "Home" THEN "" ELSE markdownContent
                 u == updateContentSync(pathSegmentsOf(route'), md0)
             IN /\ item' = IF route.name = "Home" /\ u.call.promise = "rejected"
                           THEN Null ELSE u.item
                /\ markdownContent' = u.md
                /\ calls' = Append(calls, u.call)
                \* the directory view renders sortedChildren
                /\ docs' = IF ~Falsy(u.item) /\ u.item.type = "directory"
                           THEN docsAfterSort(docs, pathSegmentsOf(route'))
                           ELSE docs

\* the refs written by invocation i are the ones on screen
Live(i) == route.name = "Doc" /\ calls[i].inst = inst

\* the catch block of updateContent
catchBlock(i) ==
  /\ calls' = [calls EXCEPT ![i].pc = "done", ![i].promise = "fulfilled",
                            ![i].result = "failed",
                            ![i].logged = calls[i].logged + 1]
  /\ markdownContent' = IF Live(i) THEN ErrorMarkup ELSE markdownContent

\* the continuation without the test of response.ok
FetchSettles_ignoresOk(i, outcome) ==
  /\ i \in 1..Len(calls)
  /\ calls[i].pc = "fetch"
  /\ IF outcome \in {"ok", "notOk"}
     THEN /\ calls' = [calls EXCEPT ![i].pc = "text"]
          /\ UNCHANGED markdownContent
     ELSE catchBlock(i)
  /\ UNCHANGED <<viteConfig, deploy, disk, docs, route, inst, item, navs>>

\* await fetch(...) settles for invocation i
FetchSettles(i, outcome) ==
  /\ i \in 1..Len(calls)
  /\ calls[i].pc = "fetch"
  /\ IF outcome = "ok"
     THEN /\ calls' = [calls EXCEPT ![i].pc = "text"]
          /\ UNCHANGED markdownContent
     ELSE catchBlock(i)
  /\ UNCHANGED <<viteConfig, deploy, disk, docs, route, inst, item, navs>>

\* the continuation that renders the text but does not assign it
TextSettles_dropsResult(i, outcome, parseThrows) ==
  /\ i \in 1..Len(calls)
  /\ calls[i].pc = "text"
  /\ IF outcome = "text" /\ ~parseThrows
     THEN /\ calls' = [calls EXCEPT ![i].pc = "done", ![i].promise = "fulfilled",
                                    ![i].result = "rendered"]
          /\ UNCHANGED markdownContent
     ELSE catchBlock(i)
  /\ UNCHANGED <<viteConfig, deploy, disk, docs, route, inst, item, navs>>

\* the continuation that shows the text as it was fetched
TextSettles_rawText(i, outcome, parseThrows) ==
  /\ i \in 1..Len(calls)
  /\ calls[i].pc = "text"
  /\ IF outcome = "text" /\ ~parseThrows
     THEN /\ calls' = [calls EXCEPT ![i].pc = "done", ![i].promise = "fulfilled",
                                    ![i].result = "rendered"]
          /\ markdownContent' = IF Live(i) THEN TextAt(calls[i].path)
                                ELSE markdownContent
     ELSE catchBlock(i)
  /\ UNCHANGED <<viteConfig, deploy, disk, docs, route, inst, item, navs>>

\* the continuation that also puts the file it fetched back as the item
TextSettles_setsItem(i, outcome, parseThrows) ==
  /\ i \in 1..Len(calls)
  /\ calls[i].pc = "text"
  /\ IF outcome = "text" /\ ~parseThrows
     THEN /\ calls' = [calls EXCEPT ![i].pc = "done", ![i].promise = "fulfilled",
                                    ![i].result = "rendered"]
          /\ markdownContent' = IF Live(i) THEN marked(TextAt(calls[i].path))
                                ELSE markdownContent
          /\ item' = IF Live(i) THEN findItem(calls[i].path, docs) ELSE item
     ELSE catchBlock(i) /\ UNCHANGED item
  /\ UNCHANGED <<viteConfig, deploy, disk, docs, route, inst, navs>>

\* await response.text() settles for invocation i and the text is rendered
TextSettles(i, outcome, parseThrows) ==
  /\ i \in 1..Len(calls)
  /\ calls[i].pc = "text"
  /\ IF outcome = "text" /\ ~parseThrows
     THEN /\ calls' = [calls EXCEPT ![i].pc = "done", ![i].promise = "fulfilled",
                                    ![i].result = "rendered"]
          /\ markdownContent' = IF Live(i) THEN marked(TextAt(calls[i].path))
                                ELSE markdownContent
     ELSE catchBlock(i)
  /\ UNCHANGED <<viteConfig, deploy, disk, docs, route, inst, item, navs>>

Settle(i) ==
  \/ \E o \in FetchOutcomes : FetchSettles(i, o)
  \/ \E o \in TextOutcomes, t \in BOOLEAN : TextSettles(i, o, t)

Next ==
  \/ \E p \in SessionUrls : Navigate(p)
  \/ \E i \in 1..MaxNav, o \in FetchOutcomes : FetchSettles(i, o)
  \/ \E i \in 1..MaxNav, o \in TextOutcomes, t \in BOOLEAN : TextSettles(i, o, t)

Spec == Init /\ [][Next]_vars

\* every issued fetch eventually responds or fails
FairSpec == Spec /\ \A i \in 1..MaxNav : WF_vars(Settle(i))

\* The viewer opened by a deep link on any docs directory.
Open(p) == navs = 0 /\ Navigate(p)
NextTree == \E p \in PathsUpTo(MaxPathLen) : Open(p)
SpecTree == InitTree /\ [][NextTree]_vars

(***************************************************************************)
(* What the template shows.                                                *)
(***************************************************************************)
\* the state of the navigation dispatcher, read off the template's v-if chain
Dispatcher ==
  IF route.name = "Home" THEN [state |-> "AtRoot"]
  ELSE IF Falsy(item) THEN [state |-> "NotFound"]
  ELSE IF item.type = "directory" THEN [state |-> "AtDirectory", node |-> item]
  ELSE IF item.type = "file" THEN [state |-> "AtFile", node |-> item]
  ELSE [state |-> "Blank"]

\* a crumb template that makes every crumb a link
renderCrumb_allLinks(crumbs, index) ==
  [tag |-> "router-link", to |-> crumbs[index + 1].path,
   text |-> crumbs[index + 1].name]

\* the body of the v-for over breadcrumbs for the crumb at (0-based) index
renderCrumb(crumbs, index) ==
  IF index < Len(crumbs) - 1
  THEN [tag |-> "router-link", to |-> crumbs[index + 1].path,
        text |-> crumbs[index + 1].name]
  ELSE [tag |-> "span.current", text |-> crumbs[index + 1].name]

\* the crumbs of nav.breadcrumbs behind the Home link; nothing without crumbs
breadcrumbsNav(crumbs) ==
  IF Len(crumbs) > 0
  THEN [k \in 1..Len(crumbs) |-> renderCrumb(crumbs, k - 1)]
  ELSE <<>>

\* breadcrumbs computed from the segments behind the first one
breadcrumbs_skipsFirst ==
  breadcrumbsOf(IF pathSegmentsOf(route) = <<>> THEN <<>>
                ELSE Tail(pathSegmentsOf(route)))

\* the computed properties of the mounted DocView
breadcrumbs == breadcrumbsOf(pathSegmentsOf(route))
sortedChildren == sortedChildrenOf(item)

(***************************************************************************)
(* Reference notions used to state the properties.  The manifest never     *)
(* changes, so a property of docs alone is evaluated where a session       *)
(* starts (navs = 0).                                                      *)
(***************************************************************************)
Range(f) == {f[k] : k \in DOMAIN f}

\* the children of node that carry exactly the name s
ChildrenNamed(node, s) ==
  IF hasChildren(node) THEN {c \in Range(node.children) : c.name = s} ELSE {}

RECURSIVE ValidWalk(_, _)
\* p names a root-to-node walk below node
ValidWalk(p, node) ==
  \/ p = <<>>
  \/ \E c \in ChildrenNamed(node, Head(p)) : ValidWalk(Tail(p), c)

RECURSIVE NodeAt(_, _)
\* the node reached by the walk p below node
NodeAt(p, node) ==
  IF p = <<>> THEN node
  ELSE NodeAt(Tail(p), CHOOSE c \in ChildrenNamed(node, Head(p)) : ValidWalk(Tail(p), c))

RECURSIVE DirectoriesOf(_)
\* the Directory nodes of the tree below and including node
DirectoriesOf(node) ==
  IF hasChildren(node)
  THEN {node} \cup UNION {DirectoriesOf(c) : c \in Range(node.children)}
  ELSE {}

AllPaths == PathsUpTo(MaxPathLen)

(***************************************************************************)
(* C2: for every manifest and every path that is a valid root-to-node      *)
(* walk, findItem returns exactly the node reached by following the        *)
(* segments child by child with exact equality on name; the item of the    *)
(* view opened on such a path is that node.                                *)
(***************************************************************************)
Thm_C2 ==
  /\ navs = 0 =>
       \A p \in AllPaths : ValidWalk(p, docs) => findItem(p, docs) = NodeAt(p, docs)
  /\ (route.name = "Doc" /\ ValidWalk(route.path, docs))
        => item = NodeAt(route.path, docs)

\* a file two levels down was opened; its sibling differs from it only in case
Wit_C2 ==
  /\ route.name = "Doc" /\ Len(route.path) = 2
  /\ route.path[1] = "zebra"
  /\ ValidWalk(route.path, docs)
  /\ item.type = "file" /\ item.name = route.path[2]
  /\ ValidWalk(<<"Zebra">>, docs)
  /\ findItem(<<"Zebra">>, docs).name = "Zebra"
  /\ findItem(<<"zebra">>, docs).type = "directory"

(***************************************************************************)
(* C3: for every manifest and every path with a segment that has no child  *)
(* of that exact name at its step (also a path that continues past a File  *)
(* node), findItem returns null and raises nothing.                        *)
(***************************************************************************)
Thm_C3 ==
  /\ navs = 0 =>
       \A p \in AllPaths : /\ ~ValidWalk(p, docs) => findItem(p, docs) = Null
                            /\ findItem(p, docs) # TypeError
  /\ (route.name = "Doc" /\ ~ValidWalk(route.path, docs)) => item = Null

\* a path that continues two segments past a File node was opened
Wit_C3 ==
  /\ route.name = "Doc" /\ Len(route.path) = 3
  /\ ValidWalk(<<route.path[1]>>, docs)
  /\ NodeAt(<<route.path[1]>>, docs).type = "file"
  /\ item = Null

(***************************************************************************)
(* C9: for every Directory node, sortedChildren lists every directory      *)
(* child before every file child and the children of one type ascending    *)
(* by name; a directory Zebra and a file apple.md are listed Zebra first.   *)
(***************************************************************************)
DirectoriesFirstAscending(sorted) ==
  \A i, j \in 1..Len(sorted) :
    i < j => /\ ~(sorted[i].type = "file" /\ sorted[j].type = "directory")
             /\ sorted[i].type = sorted[j].type
                  => localeCompare(sorted[i].name, sorted[j].name) < 0

\* every directory below the root is the item of some opened viewer; the
\* root is looked at where the session starts
Thm_C9 ==
  /\ navs = 0 => DirectoriesFirstAscending(sortedChildrenOf(docs))
  /\ (route.name = "Doc" /\ ~Falsy(item) /\ item.type = "directory")
        => DirectoriesFirstAscending(sortedChildren)

\* the open directory holds the file apple.md ahead of the directory Zebra
\* and lists Zebra, apple.md
Wit_C9 ==
  /\ route.name = "Doc" /\ ~Falsy(item) /\ item.type = "directory"
  /\ item.children = <<[name |-> "apple.md", type |-> "file"],
                       [name |-> "Zebra", type |-> "directory", children |-> <<>>]>>
  /\ [k \in 1..2 |-> sortedChildren[k].name] = <<"Zebra", "apple.md">>

(***************************************************************************)
(* C10: for every navigation path s1..sn the breadcrumbs list has exactly  *)
(* n entries, entry i with label si and target /s1/.../si.                 *)
(***************************************************************************)
CrumbsAccumulate(p, crumbs) ==
  /\ Len(crumbs) = Len(p)
  /\ \A k \in 1..Len(p) :
       /\ crumbs[k].name = p[k]
       /\ crumbs[k].path = "/" \o joinSegments(SubSeq(p, 1, k), "/")

\* every non-empty path is the route of some opened viewer; the empty path
\* is looked at where the session starts
Thm_C10 ==
  /\ navs = 0 => CrumbsAccumulate(<<>>, breadcrumbsOf(<<>>))
  /\ route.name = "Doc" => CrumbsAccumulate(route.path, breadcrumbs)

\* a three-segment path is open and its targets are the three prefixes
Wit_C10 ==
  /\ route.name = "Doc" /\ route.path = <<"zebra", "Zebra", "apple.md">>
  /\ [k \in 1..3 |-> breadcrumbs[k].path]
       = <<"/zebra", "/zebra/Zebra", "/zebra/Zebra/apple.md">>
  /\ [k \in 1..3 |-> breadcrumbs[k].name] = <<"zebra", "Zebra", "apple.md">>

(***************************************************************************)
(* The file view of one invocation of updateContent.                       *)
(***************************************************************************)
LastCall == calls[Len(calls)]

Pending(i) == i \in 1..Len(calls) /\ calls[i].pc \in {"fetch", "text"}

Stage(cs, i) ==
  IF i > Len(cs) THEN "Idle"
  ELSE IF cs[i].pc \in {"fetch", "text"} THEN "Fetching"
  ELSE IF cs[i].result = "rendered" THEN "Rendered"
  ELSE IF cs[i].result = "failed" THEN "FetchFailed"
  ELSE "NoFetch"

\* the markup of the file at path p
MarkupOf(p) == marked(TextAt(p))

(***************************************************************************)
(* C1: when the user navigates from file A to file B before A's fetch has  *)
(* resolved, A's late resolution does not change what is displayed: once   *)
(* every fetch has resolved, the displayed markup is that of the current   *)
(* file (or its error placeholder if its own fetch failed).                *)
(***************************************************************************)
Cex_C1 ==
  (/\ route.name = "Doc"
   /\ Dispatcher.state = "AtFile"
   /\ \A i \in 1..Len(calls) : ~Pending(i))
  => markdownContent = IF LastCall.result = "rendered"
                       THEN MarkupOf(route.path) ELSE ErrorMarkup

(***************************************************************************)
(* C4: after every navigation the dispatcher is in NotFound iff the path   *)
(* does not resolve, in AtDirectory(n) iff it resolves to Directory n, in  *)
(* AtFile(n) iff it resolves to File n; every state accepts a further      *)
(* navigation.                                                             *)
(***************************************************************************)
Thm_C4 ==
  /\ route.name = "Doc" =>
       IF ValidWalk(route.path, docs)
       THEN LET n == NodeAt(route.path, docs)
            IN Dispatcher = [state |-> IF n.type = "directory"
                                       THEN "AtDirectory" ELSE "AtFile",
                             node |-> n]
       ELSE Dispatcher = [state |-> "NotFound"]
  /\ route.name = "Home" => Dispatcher = [state |-> "AtRoot"]
  /\ \A p \in DOMAIN disk \cup {<<"zebra", "zebra">>} :
       (navs < MaxNav /\ routeOf(p) # route) => ENABLED Navigate(p)

\* not-found reached from a file whose fetch is still in flight, and a
\* further navigation is possible
Wit_C4 ==
  /\ Len(calls) = 2
  /\ Pending(1)
  /\ calls[1].inst = inst
  /\ Dispatcher = [state |-> "NotFound"]
  /\ navs < MaxNav
  /\ ENABLED Navigate(<<"zebra">>)
  /\ ENABLED Navigate(ROOT)

(***************************************************************************)
(* C5: when the fetch for a file fails (network error or a response that   *)
(* is not ok), the body cannot be read or the render step throws, the      *)
(* failure is caught: it is logged once, the markup on screen becomes the  *)
(* error placeholder and the promise of updateContent is fulfilled.        *)
(***************************************************************************)
Fails(i) ==
  \/ FetchSettles(i, "notOk")
  \/ FetchSettles(i, "networkError")
  \/ \E t \in BOOLEAN : TextSettles(i, "bodyError", t)
  \/ TextSettles(i, "text", TRUE)

Thm_C5 ==
  [][\A i \in 1..MaxNav :
       Fails(i) => /\ calls'[i].promise = "fulfilled"
                   /\ calls'[i].logged = calls[i].logged + 1
                   /\ calls'[i].logged = 1
                   /\ Live(i) => markdownContent' = ErrorMarkup]_vars

\* the fetch of the file on screen failed and was logged once
Wit_C5 ==
  /\ Dispatcher.state = "AtFile"
  /\ Len(calls) > 0 /\ Live(Len(calls))
  /\ LastCall.result = "failed"
  /\ LastCall.logged = 1
  /\ LastCall.promise = "fulfilled"
  /\ markdownContent = ErrorMarkup

(***************************************************************************)
(* C6: in every reachable state, also while a fetch is in flight, the user *)
(* sees a directory list, the rendered content of the current file, the    *)
(* not-found message or the content-load-error message.                    *)
(***************************************************************************)
Cex_C6 ==
  route.name = "Doc" =>
    /\ Dispatcher.state \in {"AtDirectory", "AtFile", "NotFound"}
    /\ Dispatcher.state = "AtFile"
         => markdownContent \in {MarkupOf(route.path), ErrorMarkup}

(***************************************************************************)
(* C7: from a navigation to a File node until that node's own fetch        *)
(* resolves, no markup rendered for another, previously visited node and   *)
(* no error placeholder produced for another node is displayed as the      *)
(* content of the new node.                                                *)
(***************************************************************************)
Cex_C7 ==
  (/\ route.name = "Doc"
   /\ Dispatcher.state = "AtFile"
   /\ Pending(Len(calls)))
  => /\ \A j \in 1..(Len(calls) - 1) :
          calls[j].path # route.path => markdownContent # MarkupOf(calls[j].path)
     /\ markdownContent = ErrorMarkup
          => \E j \in 1..(Len(calls) - 1) :
               /\ calls[j].path = route.path
               /\ calls[j].inst = inst
               /\ calls[j].result = "failed"

(***************************************************************************)
(* C8: if every issued fetch eventually responds or fails, every           *)
(* invocation that is fetching eventually reaches Rendered or FetchFailed; *)
(* an invocation moves from Idle to Fetching and then to exactly one of    *)
(* Rendered and FetchFailed, where it stays, and the outcome of the        *)
(* navigation that is not superseded is what the file view shows.          *)
(***************************************************************************)
StageOrder(i) ==
  LET a == Stage(calls, i)
      b == Stage(calls', i)
  IN /\ a = "Idle" => b \in {"Idle", "Fetching", "NoFetch"}
     /\ a = "Fetching" => b \in {"Fetching", "Rendered", "FetchFailed"}
     /\ a \in {"Rendered", "FetchFailed", "NoFetch"} => b = a
     /\ (a = "Fetching" /\ b # "Fetching" /\ i = Len(calls) /\ Live(i))
          => markdownContent' = IF b = "Rendered"
                                THEN MarkupOf(calls[i].path) ELSE ErrorMarkup

Thm_C8 ==
  /\ \A i \in 1..MaxNav :
       Pending(i) ~> (Stage(calls, i) \in {"Rendered", "FetchFailed"})
  /\ [][\A i \in 1..MaxNav : StageOrder(i)]_vars

\* the fetch of the file on screen was answered and its markup is shown
Wit_C8 ==
  /\ Dispatcher.state = "AtFile"
  /\ Len(calls) > 0 /\ Live(Len(calls))
  /\ Stage(calls, Len(calls)) = "Rendered"
  /\ markdownContent = MarkupOf(route.path)

(***************************************************************************)
(* C11: a navigation issues a content fetch iff its path resolves to a     *)
(* File node, and then exactly one; a navigation to a Directory, to a path *)
(* that is not found or to the root issues none, and a File that was       *)
(* rendered before is fetched again when it is visited again.              *)
(***************************************************************************)
\* the invocations among cs that issued a fetch
Fetches(cs) == {i \in 1..Len(cs) : cs[i].result # "noFetch"}

ResolvesToFile(p) == ValidWalk(p, docs) /\ NodeAt(p, docs).type = "file"

Thm_C11 ==
  [][/\ navs' = navs + 1 =>
          /\ Fetches(calls) \subseteq Fetches(calls')
          /\ Cardinality(Fetches(calls') \ Fetches(calls))
               = IF route'.name = "Doc" /\ ResolvesToFile(route'.path) THEN 1 ELSE 0
          /\ \A i \in Fetches(calls') \ Fetches(calls) :
               calls'[i].path = route'.path /\ calls'[i].pc = "fetch"
     /\ navs' = navs => Fetches(calls') = Fetches(calls)]_vars

\* a file rendered on the first visit is being fetched again on the third
Wit_C11 ==
  /\ Len(calls) = 3
  /\ calls[1].path = calls[3].path
  /\ calls[1].result = "rendered"
  /\ calls[2].result = "noFetch"
  /\ calls[3].pc = "fetch"
  /\ calls[1].inst = calls[3].inst
  /\ Fetches(calls) = {1, 3}

(***************************************************************************)
(* C12: the dispatcher state (the current node, or not-found) changes only *)
(* on a navigation: the completion or failure of a content fetch, current  *)
(* or stale, leaves it unchanged.                                          *)
(***************************************************************************)
Thm_C12 ==
  [][/\ (\E i \in 1..MaxNav : Settle(i)) => Dispatcher' = Dispatcher
     /\ Dispatcher' # Dispatcher => navs' = navs + 1]_vars

\* the fetch of a file left behind was answered while a directory is open
Wit_C12 ==
  /\ Dispatcher.state = "AtDirectory"
  /\ Len(calls) = 2
  /\ calls[1].result = "rendered"
  /\ Live(1)
  /\ markdownContent = marked(TextAt(calls[1].path))

(***************************************************************************)
(* C13: no navigation, directory rendering (sorting) or fetch completion   *)
(* changes the manifest: the tree, with the order of every node's          *)
(* children, stays the one loaded at startup.                              *)
(***************************************************************************)
Thm_C13 == [][docs' = docs]_vars

\* a directory whose children are not in display order has been rendered
\* after a file was fetched, and the manifest is still one the builder wrote
Wit_C13 ==
  /\ Dispatcher.state = "AtDirectory"
  /\ Len(item.children) = 2
  /\ sortedChildren # item.children
  /\ Len(calls) = 2
  /\ calls[1].result = "rendered"
  /\ docs \in ManifestsOf(disk)
  /\ findItem(route.path, docs) = item

(***************************************************************************)
(* C14: for every File path s1..sn, in production and locally, the URL     *)
(* the content is fetched from is the configured base path followed by     *)
(* docs/s1/.../sn, and that base path is the router's history base.        *)
(***************************************************************************)
RECURSIVE SlashJoined(_, _)
\* s1/s2/.../sk
SlashJoined(p, k) ==
  IF k = 0 THEN ""
  ELSE IF k = 1 THEN p[1]
  ELSE SlashJoined(p, k - 1) \o "/" \o p[k]

Thm_C15 ==
  /\ findItem(<<>>, docs) = docs
  /\ docs.type = "directory"
  /\ hasChildren(docs)

\* the manifest of a docs directory with three entries at the top
Wit_C15 ==
  /\ navs = 0
  /\ findItem(<<>>, docs) = docs
  /\ docs.name = DocsDirName
  /\ Len(docs.children) = 3
  /\ isDirectory(disk, ROOT)

(***************************************************************************)
(* C16: for every non-empty navigation path, exactly the last breadcrumb   *)
(* is rendered as non-navigable current-location text and every earlier    *)
(* breadcrumb as a navigable link to its target path.                      *)
(***************************************************************************)
LastIsCurrent(p, nav) ==
  /\ Len(nav) = Len(p)
  /\ \A k \in 1..Len(p) :
       /\ nav[k].text = p[k]
       /\ k = Len(p) => nav[k].tag = "span.current" /\ "to" \notin DOMAIN nav[k]
       /\ k < Len(p) => /\ nav[k].tag = "router-link"
                        /\ nav[k].to = "/" \o SlashJoined(p, k)

Thm_C16 ==
  route.name = "Doc" =>
    /\ route.path # <<>>
    /\ LastIsCurrent(route.path, breadcrumbsNav(breadcrumbs))

\* a three-segment path is open: two links and the current location
Wit_C16 ==
  /\ route.name = "Doc" /\ route.path = <<"apple.md", "zebra", "Zebra">>
  /\ breadcrumbsNav(breadcrumbs)
       = <<[tag |-> "router-link", to |-> "/apple.md", text |-> "apple.md"],
           [tag |-> "router-link", to |-> "/apple.md/zebra", text |-> "zebra"],
           [tag |-> "span.current", text |-> "Zebra"]>>

(***************************************************************************)
(* C17: sorting the children of a Directory node is idempotent: the        *)
(* sortedChildren ordering applied to its own output yields the same       *)
(* sequence.                                                               *)
(***************************************************************************)
SortedAgain(d) == sortedChildrenOf([d EXCEPT !.children = sortedChildrenOf(d)])

Thm_C17 ==
  /\ navs = 0 => SortedAgain(docs) = sortedChildrenOf(docs)
  /\ (route.name = "Doc" /\ ~Falsy(item) /\ item.type = "directory")
        => SortedAgain(item) = sortedChildren

\* the open directory holds the files Zebra and zebra in that order; they are
\* listed zebra, Zebra, and listing that again changes nothing
Wit_C17 ==
  /\ route.name = "Doc" /\ ~Falsy(item) /\ item.type = "directory"
  /\ item.children = <<[name |-> "Zebra", type |-> "file"],
                       [name |-> "zebra", type |-> "file"]>>
  /\ sortedChildren = <<[name |-> "zebra", type |-> "file"],
                        [name |-> "Zebra", type |-> "file"]>>
  /\ SortedAgain(item) = sortedChildren

(***************************************************************************)
(* C18: when the fetch for File node f succeeds and no navigation          *)
(* occurred since the navigation to f, the markup displayed from then is   *)
(* the markdown converter applied to exactly the text fetched for f's      *)
(* path, shown in the file view of f.                                      *)
(***************************************************************************)
\* invocation i belongs to the latest navigation and the viewer is still there
NotNavigatedSince(i) == i = Len(calls) /\ route = DocRoute(calls[i].path)

Thm_C18 ==
  [][\A i \in 1..MaxNav :
       (/\ NotNavigatedSince(i)
        /\ Stage(calls, i) = "Fetching"
        /\ Stage(calls', i) = "Rendered")
       => /\ markdownContent' = marked(TextAt(route.path))
          /\ markdownContent' # TextAt(route.path)
          /\ Dispatcher' = [state |-> "AtFile", node |-> NodeAt(route.path, docs)]]_vars

\* the only navigation went to zebra/apple.md, whose text was fetched and is
\* shown converted
Wit_C18 ==
  /\ route = DocRoute(<<"zebra", "apple.md">>)
  /\ Len(calls) = 1 /\ calls[1].result = "rendered"
  /\ Dispatcher.state = "AtFile"
  /\ markdownContent = "<p>notes of zebra/apple.md</p>"

(***************************************************************************)
(* C19: for every filesystem tree under the docs root, getDirectoryTree    *)
(* returns a tree with exactly one node per filesystem entry: a directory  *)
(* becomes a Directory node whose children are the nodes of its entries,   *)
(* one per entry; any other entry becomes a File node; the name of a node  *)
(* is the base name of its entry.                                          *)
(***************************************************************************)
RECURSIVE SumSeq(_)
SumSeq(s) == IF s = <<>> THEN 0 ELSE Head(s) + SumSeq(Tail(s))

RECURSIVE NodeCount(_)
\* the number of nodes of the tree below and including node
NodeCount(node) ==
  IF hasChildren(node)
  THEN 1 + SumSeq([k \in 1..Len(node.children) |-> NodeCount(node.children[k])])
  ELSE 1

\* the entries of the directory p on the disk fs
EntriesOf(fs, p) == {q \in DOMAIN fs : q # ROOT /\ Parent(q) = p}

NodePerEntry(fs, tree) ==
  /\ NodeCount(tree) = Cardinality(DOMAIN fs)
  /\ \A p \in DOMAIN fs :
       /\ ValidWalk(p, tree)
       /\ LET n == NodeAt(p, tree)
          IN /\ n.name = basename(p)
             /\ IF fs[p] = "dir"
                THEN /\ n.type = "directory"
                     /\ Len(n.children) = Cardinality(EntriesOf(fs, p))
                     /\ {c.name : c \in Range(n.children)}
                          = {basename(q) : q \in EntriesOf(fs, p)}
                ELSE n.type = "file" /\ ~hasChildren(n)

Thm_C19 == navs = 0 => NodePerEntry(disk, docs)

\* a directory zebra holding the file apple.md, next to an empty directory
\* named apple.md, listed in that order: four entries, four nodes
Wit_C19 ==
  /\ navs = 0
  /\ disk = (ROOT :> "dir") @@ (<<"zebra">> :> "dir") @@ (<<"apple.md">> :> "dir")
              @@ (<<"zebra", "apple.md">> :> "file")
  /\ docs = [name |-> "docs", type |-> "directory", children |->
               <<[name |-> "zebra", type |-> "directory", children |->
                    <<[name |-> "apple.md", type |-> "file"]>>],
                 [name |-> "apple.md", type |-> "directory", children |-> <<>>]>>]
  /\ NodeCount(docs) = 4

(***************************************************************************)
(* C20: in every manifest produced by the builder, a node has a children   *)
(* sequence if and only if its type is directory.                          *)
(***************************************************************************)
RECURSIVE NodesOf(_)
\* the nodes of the tree below and including node
NodesOf(node) ==
  {node} \cup (IF "children" \in DOMAIN node
               THEN UNION {NodesOf(c) : c \in Range(node.children)}
               ELSE {})

Thm_C20 ==
  navs = 0 =>
    \A n \in NodesOf(docs) :
      /\ n.type \in {"directory", "file"}
      /\ ("children" \in DOMAIN n) <=> (n.type = "directory")

\* a manifest with a file and an empty directory: the one has no children
\* field, the other an empty one
Wit_C20 ==
  /\ navs = 0
  /\ [name |-> "zebra", type |-> "file"] \in NodesOf(docs)
  /\ [name |-> "Zebra", type |-> "directory", children |-> <<>>] \in NodesOf(docs)

(***************************************************************************)
(* HomeView: the topics shown at the root route.                           *)
(***************************************************************************)
ToUpper(c) ==
  IF IndexIn(c, LowerLetters, 1) > 0
  THEN CharAt(UpperLetters, IndexIn(c, LowerLetters, 1)) ELSE c

RECURSIVE formatFrom(_, _, _)
\* name.split('-').map(capitalise).join(' ') from position i on; wordStart
\* tells that position i opens a word
formatFrom(name, i, wordStart) ==
  IF i > Len(name) THEN ""
  ELSE LET c == CharAt(name, i)
       IN IF c = "-" THEN " " \o formatFrom(name, i + 1, TRUE)
          ELSE (IF wordStart THEN ToUpper(c) ELSE c) \o formatFrom(name, i + 1, FALSE)

formatName(name) == formatFrom(name, 1, TRUE)

\* String.prototype.includes
includes(s, q) ==
  \E i \in 1..(Len(s) - Len(q) + 1) : SubSeq(s, i, i + Len(q) - 1) = q

\* the search queries typed into the search box
SearchQueries == {"", "ze", "APPLE", "x"}

\* the computed property filteredTopics for the query typed
filteredTopics(tree, searchQuery) ==
  IF ~hasChildren(tree) THEN <<>>
  ELSE IF searchQuery = "" THEN tree.children
  ELSE LET query == toLowerCase(searchQuery)
           keep(it) == \/ includes(toLowerCase(it.name), query)
                       \/ includes(toLowerCase(formatName(it.name)), query)
       IN SelectSeq(tree.children, keep)

(***************************************************************************)
(* C21: the listing of the root's children shown at the root route with an *)
(* empty search query follows the directory display order: every directory *)
(* before every file, ascending by name within each type.                  *)
(***************************************************************************)
Cex_C21 ==
  route.name = "Home" => DirectoriesFirstAscending(filteredTopics(docs, ""))

(***************************************************************************)
(* What DocView puts below the breadcrumbs: the v-if chain of the          *)
(* template with the data each branch reads.                               *)
(***************************************************************************)
\* a template whose directory view also binds the markup
docViewBody_htmlInDirectory ==
  IF Falsy(item) THEN [view |-> "not-found"]
  ELSE IF item.type = "directory"
  THEN [view |-> "directory-view", title |-> item.name, list |-> sortedChildren,
        html |-> markdownContent]
  ELSE IF item.type = "file" THEN [view |-> "file-view", html |-> markdownContent]
  ELSE [view |-> "content-wrapper"]

docViewBody ==
  IF Falsy(item) THEN [view |-> "not-found"]
  ELSE IF item.type = "directory"
  THEN [view |-> "directory-view", title |-> item.name, list |-> sortedChildren]
  ELSE IF item.type = "file" THEN [view |-> "file-view", html |-> markdownContent]
  ELSE [view |-> "content-wrapper"]

\* the markup bound with v-html, if any
VisibleMarkup == IF "html" \in DOMAIN docViewBody THEN docViewBody.html ELSE ""

(***************************************************************************)
(* C22: while the current node is a Directory or the path is not found, no *)
(* file markup is visible, whatever fetches are in flight and in whatever  *)
(* order they resolve or fail.                                             *)
(***************************************************************************)
Thm_C22 ==
  (route.name = "Doc" /\ Dispatcher.state \in {"AtDirectory", "NotFound"})
    => /\ VisibleMarkup = ""
       /\ docViewBody.view \in {"directory-view", "not-found"}

\* a directory is open, the fetch of a file left earlier has written its
\* markup, and another fetch is still in flight
Wit_C22 ==
  /\ route.name = "Doc" /\ Dispatcher.state = "AtDirectory"
  /\ markdownContent \notin {"", ErrorMarkup}
  /\ \E i \in 1..Len(calls) : Pending(i)
  /\ VisibleMarkup = ""

(***************************************************************************)
(* Links.  A router-link hands its target string to the router, which      *)
(* cuts the query and the hash off, matches the path against the routes    *)
(* and decodes the parameters.                                             *)
(***************************************************************************)
RECURSIVE pathEnd(_, _)
\* parseURL: the position of the first '?' or '#' at or after i, or one past
\* the end
pathEnd(location, i) ==
  IF i > Len(location) THEN i
  ELSE IF CharAt(location, i) \in {"?", "#"} THEN i
  ELSE pathEnd(location, i + 1)

\* parseURL(...).path
urlPath(location) == SubSeq(location, 1, pathEnd(location, 1) - 1)

\* the three characters of an escape sequence at position i, if there are three
escapeAt(s, i) == IF i + 2 <= Len(s) THEN SubSeq(s, i, i + 2) ELSE ""

RECURSIVE decode(_, _)
\* decodeURIComponent from position i on
decode(s, i) ==
  IF i > Len(s) THEN ""
  ELSE IF escapeAt(s, i) = "%23" THEN "#" \o decode(s, i + 3)
  ELSE IF escapeAt(s, i) = "%3F" THEN "?" \o decode(s, i + 3)
  ELSE IF escapeAt(s, i) = "%25" THEN "%" \o decode(s, i + 3)
  ELSE CharAt(s, i) \o decode(s, i + 1)

RECURSIVE encodeFrom(_, _)
\* the percent-encoded form a path segment has in the address
encodeFrom(s, i) ==
  IF i > Len(s) THEN ""
  ELSE (CASE CharAt(s, i) = "#" -> "%23"
          [] CharAt(s, i) = "?" -> "%3F"
          [] CharAt(s, i) = "%" -> "%25"
          [] OTHER -> CharAt(s, i)) \o encodeFrom(s, i + 1)

RECURSIVE splitFrom(_, _, _)
\* value.split('/') of the repeatable parameter: cur collects the segment
\* being read
splitFrom(s, i, cur) ==
  IF i > Len(s) THEN <<cur>>
  ELSE IF CharAt(s, i) = "/" THEN <<cur>> \o splitFrom(s, i + 1, "")
  ELSE splitFrom(s, i + 1, cur \o CharAt(s, i))

\* the decoded path parameter of the route that matches location: none for
\* '/', which is the Home route
paramsOf(location) ==
  LET path == urlPath(location)
  IN IF Len(path) <= 1 THEN <<>>
     ELSE LET raw == splitFrom(path, 2, "")
          IN [k \in 1..Len(raw) |-> decode(raw[k], 1)]

\* router.resolve(to)
resolve(to) == routeOf(paramsOf(to))

RECURSIVE routePathFrom(_, _)
routePathFrom(segs, i) ==
  IF i > Len(segs) THEN ""
  ELSE "/" \o encodeFrom(segs[i], 1) \o routePathFrom(segs, i + 1)

\* $route.path
routePath(r) == IF r.name = "Home" THEN "/" ELSE routePathFrom(r.path, 1)

\* :to of a doc-card of HomeView
topicLink(it) == "/" \o it.name

\* :to of a file-item of the directory view
childLink(child) == routePath(route) \o "/" \o child.name

(***************************************************************************)
(* A session of following links.  The docs directory holds a directory     *)
(* c# with the file zebra, and a directory zebra with the file a?.md and   *)
(* the empty directory Zebra.                                              *)
(***************************************************************************)
LinkDisk ==
  (ROOT :> "dir") @@ (<<"c#">> :> "dir") @@ (<<"c#", "zebra">> :> "file")
    @@ (<<"zebra">> :> "dir") @@ (<<"zebra", "a?.md">> :> "file")
    @@ (<<"zebra", "Zebra">> :> "dir")

\* addresses entered in the address bar
TypedUrls == {"/c%23", "/c%23/zebra", "/zebra/a%3F.md", "/zebra/"}

InitLinks ==
  /\ disk = LinkDisk
  /\ docs \in ManifestsOf(LinkDisk)
  /\ InitView
  /\ InitConfig

\* the router navigates to the target of a link or to an address
Follow(to) == Navigate(paramsOf(to))

\* a doc-card of HomeView is clicked
ClickTopic(k) ==
  /\ route.name = "Home"
  /\ k \in 1..Len(filteredTopics(docs, ""))
  /\ Follow(topicLink(filteredTopics(docs, "")[k]))

\* a file-item of the directory view is clicked
ClickChild(k) ==
  /\ route.name = "Doc"
  /\ docViewBody.view = "directory-view"
  /\ k \in 1..Len(sortedChildren)
  /\ Follow(childLink(sortedChildren[k]))

\* a navigable breadcrumb is clicked
ClickCrumb(k) ==
  /\ route.name = "Doc"
  /\ k \in 1..(Len(breadcrumbs) - 1)
  /\ Follow(breadcrumbsNav(breadcrumbs)[k].to)

\* the Home link of the breadcrumbs or of the not-found page is clicked
ClickHome == route.name = "Doc" /\ Follow("/")

OpenUrl(u) == Follow(u)

NextLinks ==
  \/ \E k \in 1..2 : ClickTopic(k)
  \/ \E k \in 1..2 : ClickChild(k)
  \/ \E k \in 1..MaxPathLen : ClickCrumb(k)
  \/ ClickHome
  \/ \E u \in TypedUrls : OpenUrl(u)
  \/ \E i \in 1..MaxNav, o \in FetchOutcomes : FetchSettles(i, o)
  \/ \E i \in 1..MaxNav, o \in TextOutcomes, t \in BOOLEAN : TextSettles(i, o, t)

SpecLinks == InitLinks /\ [][NextLinks]_vars

(***************************************************************************)
(* C23: for every Directory node reached at path p and every child c       *)
(* listed in its view, the link shown for c targets p followed by c.name   *)
(* and navigating to it resolves to c, never to not-found; the same holds  *)
(* for the links of the root children of HomeView.                         *)
(***************************************************************************)
LinkLeadsTo(to, p, c) ==
  /\ paramsOf(to) = p
  /\ resolve(to).name = "Doc"
  /\ findItem(pathSegmentsOf(resolve(to)), docs) = c

Cex_C23 ==
  /\ route.name = "Home" =>
       \A c \in Range(filteredTopics(docs, "")) :
         LinkLeadsTo(topicLink(c), <<c.name>>, c)
  /\ (route.name = "Doc" /\ docViewBody.view = "directory-view"
        /\ ValidWalk(route.path, docs)) =>
       \A c \in Range(sortedChildren) :
         LinkLeadsTo(childLink(c), Append(route.path, c.name), c)

(***************************************************************************)
(* C24: whenever the current path resolves to a node, the target of every  *)
(* navigable (non-last) breadcrumb resolves to a Directory node that is an *)
(* ancestor of the current node; none leads to not-found or to a File.     *)
(***************************************************************************)
Cex_C24 ==
  (route.name = "Doc" /\ ValidWalk(route.path, docs)) =>
    \A k \in 1..(Len(breadcrumbs) - 1) :
      LET to == breadcrumbsNav(breadcrumbs)[k].to
          target == findItem(pathSegmentsOf(resolve(to)), docs)
      IN /\ resolve(to).name = "Doc"
         /\ target = NodeAt(SubSeq(route.path, 1, k), docs)
         /\ target.type = "directory"

(***************************************************************************)
(* C25: whenever a non-empty path resolves to node n, the number of        *)
(* breadcrumbs equals the depth of n below the root and the label of the   *)
(* last breadcrumb equals n.name; breadcrumbs and resolution use the same  *)
(* segment sequence of the route parameter.                                *)
(***************************************************************************)
RECURSIVE NodesAtDepth(_, _)
\* the nodes k levels below node
NodesAtDepth(node, k) ==
  IF k = 0 THEN {node}
  ELSE IF hasChildren(node)
  THEN UNION {NodesAtDepth(c, k - 1) : c \in Range(node.children)}
  ELSE {}

Thm_C25 ==
  (route.name = "Doc" /\ ValidWalk(route.path, docs)) =>
    /\ item = NodeAt(route.path, docs)
    /\ item \in NodesAtDepth(docs, Len(breadcrumbs))
    /\ Len(breadcrumbs) = Len(route.path)
    /\ breadcrumbs[Len(breadcrumbs)].name = item.name
    /\ [k \in 1..Len(breadcrumbs) |-> breadcrumbs[k].name] = pathSegmentsOf(route)

\* the file apple.md two levels down is open below two breadcrumbs
Wit_C25 ==
  /\ route.name = "Doc" /\ Len(route.path) = 2
  /\ ValidWalk(route.path, docs)
  /\ item = [name |-> "apple.md", type |-> "file"]
  /\ Len(breadcrumbs) = 2
  /\ breadcrumbs[2].name = "apple.md"
  /\ item \notin NodesAtDepth(docs, 1)

(***************************************************************************)
(* C26: for a Directory node whose children have unique names, the         *)
(* displayed order depends only on the set of children, not on their order *)
(* in the manifest: two manifests listing the same children in different   *)
(* orders produce the same sortedChildren sequence.                        *)
(***************************************************************************)
OrdersOf(n) == {f \in [1..n -> 1..n] : \A i, j \in 1..n : f[i] = f[j] => i = j}

\* d with its children listed in the order f
Reordered(d, f) == [d EXCEPT !.children = [k \in 1..Len(d.children) |-> d.children[f[k]]]]

UniqueNames(d) ==
  \A i, j \in 1..Len(d.children) : d.children[i].name = d.children[j].name => i = j

Thm_C26 ==
  navs = 0 =>
    \A d \in DirectoriesOf(docs) :
      UniqueNames(d) =>
        \A f \in OrdersOf(Len(d.children)) :
          sortedChildrenOf(Reordered(d, f)) = sortedChildrenOf(d)

\* the builder can write another manifest for the same three files, and the
\* root directory is displayed in the same order for both
Wit_C26 ==
  /\ navs = 0
  /\ Len(docs.children) = 3
  /\ \A c \in Range(docs.children) : c.type = "file"
  /\ \E other \in ManifestsOf(disk) :
       /\ other # docs
       /\ other.children # docs.children
       /\ sortedChildrenOf(other) = sortedChildrenOf(docs)

(***************************************************************************)
(* C27: for every Directory node, sortedChildren is a permutation of the   *)
(* node's children: every child appears exactly once and nothing else      *)
(* appears; for a File node or an unresolved path it is the empty list.    *)
(***************************************************************************)
IsPermutationOf(s, t) ==
  /\ Len(s) = Len(t)
  /\ \E f \in OrdersOf(Len(t)) : s = [k \in 1..Len(t) |-> t[f[k]]]

Thm_C27 ==
  /\ navs = 0 => IsPermutationOf(sortedChildrenOf(docs), docs.children)
  /\ route.name = "Doc" =>
       IF ~Falsy(item) /\ item.type = "directory"
       THEN IsPermutationOf(sortedChildren, item.children)
       ELSE sortedChildren = <<>>

\* the open directory lists its two children, the file apple.md and the
\* directory zebra, in the other order than the manifest, each of them once
Wit_C27 ==
  /\ route.name = "Doc" /\ ~Falsy(item) /\ item.type = "directory"
  /\ item.children = <<[name |-> "apple.md", type |-> "file"],
                       [name |-> "zebra", type |-> "directory", children |-> <<>>]>>
  /\ sortedChildren = <<item.children[2], item.children[1]>>
  /\ Cardinality(Range(sortedChildren)) = 2

(***************************************************************************)
(* C28: in a manifest that is a strict tree with unique sibling names,     *)
(* resolution is injective and covers the tree: two different segment      *)
(* sequences never resolve to the same node, and every node is the result  *)
(* of resolving exactly one segment sequence.  Nodes are told apart by     *)
(* their place in the manifest, as objects are.                            *)
(***************************************************************************)
RECURSIVE WithIdentity(_, _)
\* the tree with every node marked by its place: the indices that lead to it
WithIdentity(node, place) ==
  IF hasChildren(node)
  THEN [name |-> node.name, type |-> node.type, id |-> place,
        children |-> [k \in 1..Len(node.children) |->
                        WithIdentity(node.children[k], Append(place, k))]]
  ELSE [name |-> node.name, type |-> node.type, id |-> place]

ResolvesOnce(tree) ==
  LET nodes == NodesOf(tree)
      resolving == {p \in AllPaths : findItem(p, tree) # Null}
  IN /\ \A p \in resolving : findItem(p, tree) \in nodes
     /\ \A n \in nodes : Cardinality({p \in resolving : findItem(p, tree) = n}) = 1

Thm_C28 == navs = 0 => ResolvesOnce(WithIdentity(docs, <<>>))

\* the manifest holds two files apple.md that are equal as values; they are
\* two nodes, each reached by its own path only
Wit_C28 ==
  /\ navs = 0
  /\ findItem(<<"apple.md">>, docs) = [name |-> "apple.md", type |-> "file"]
  /\ findItem(<<"zebra", "apple.md">>, docs) = findItem(<<"apple.md">>, docs)
  /\ findItem(<<"zebra", "apple.md">>, WithIdentity(docs, <<>>))
       # findItem(<<"apple.md">>, WithIdentity(docs, <<>>))
  /\ Cardinality(NodesOf(WithIdentity(docs, <<>>))) = 4

(***************************************************************************)
(* The whole of nav.breadcrumbs: the Home link and the crumbs, rendered    *)
(* only when there are crumbs.                                             *)
(***************************************************************************)
HomeLink == [tag |-> "router-link", to |-> "/", text |-> "Home"]

\* a nav without the Home link
navBreadcrumbs_noHome(crumbs) ==
  IF Len(crumbs) > 0 THEN breadcrumbsNav(crumbs) ELSE <<>>

navBreadcrumbs(crumbs) ==
  IF Len(crumbs) > 0 THEN <<HomeLink>> \o breadcrumbsNav(crumbs) ELSE <<>>

(***************************************************************************)
(* C29: on every DocView page, for every navigation path including the     *)
(* empty one, the Home link is shown as the first breadcrumb, and Home is  *)
(* never an element of the accumulated breadcrumb list.                    *)
(***************************************************************************)
HomeShownFirst(p) ==
  LET nav == navBreadcrumbs(breadcrumbsOf(p))
  IN /\ Len(nav) > 0
     /\ nav[1] = HomeLink

HomeNotAccumulated(p) ==
  LET crumbs == breadcrumbsOf(p)
  IN /\ Len(crumbs) = Len(p)
     /\ \A k \in 1..Len(crumbs) :
          /\ crumbs[k].path # HomeLink.to
          /\ crumbs[k].name = p[k]

InitDeploy ==
  /\ disk = SessionDisk
  /\ docs \in ManifestsOf(SessionDisk)
  /\ InitView
  /\ viteConfig \in ConfigContents
  /\ deploy = NotDeploying

viewerVars == <<disk, docs, route, inst, item, markdownContent, calls, navs>>

\* lines 40-57: the file is read, rewritten and written, the child started
DeployStart ==
  /\ deploy.pc = "idle"
  /\ viteConfig' = replaceBase(viteConfig, DeployBase)
  /\ deploy' = [pc |-> "building", read |-> viteConfig]
  /\ UNCHANGED viewerVars

\* the callback of exec without an error
BuildSucceeds ==
  /\ deploy.pc = "building"
  /\ viteConfig' = replaceBase(viteConfig, RestoredBase)
  /\ deploy' = [deploy EXCEPT !.pc = "restored"]
  /\ UNCHANGED viewerVars

\* the callback of exec with an error
BuildFails ==
  /\ deploy.pc = "building"
  /\ deploy' = [deploy EXCEPT !.pc = "failed"]
  /\ UNCHANGED viteConfig
  /\ UNCHANGED viewerVars

NextDeploy == DeployStart \/ BuildSucceeds \/ BuildFails

SpecDeploy == InitDeploy /\ [][NextDeploy]_vars

====
